---- MODULE Spec2Model ----
\* Video joiner: the clip list, the FFmpeg engine's readiness and the join job
\* of the App component, in its two versions:
\*   "lazy"  - src/src/App.tsx: ensureFFmpeg loads the engine on first use;
\*   "mount" - src/unnamed/part_000: the engine is loaded by an effect on mount
\*             and ensureFFmpeg awaits the promise that load left behind.
\* Everything outside the engine load is the same code in both files.
\*
\* One action is one macrotask of the page: a React event handler, or the
\* continuation of an async function from the completion of one engine call to
\* the next await of an engine call. State set in a macrotask is rendered
\* before the next event is dispatched, so a handler's closure holds the
\* state of the moment it is invoked.
EXTENDS Integers, Sequences, FiniteSets, TLC

\* ----------------------------------------------------------------- bounds
\* Clips ever created in a session.
MaxAdds == 3
\* handleJoin invocations in a session.
MaxJobs == 2
\* How far outside 0..length-1 an index handed to moveClip can lie.
MaxStale == 2

\* ------------------------------------------------------------- constants
Null == "null"
Undefined == "undefined"
\* outputUrl is null or an object URL; the URL createObjectURL returns in
\* handleJoin invocation j is Url(j).
NoUrl == << >>
Url(j) == << "blob", j >>

\* File names are sequences of characters; "." is the separator split('.') uses.
FileA == <<"a", ".", "m">>
FileB == <<"b">>
\* What the file picker can hand to handleFileSelection in one change event.
Selections == { <<>>, <<FileA>>, <<FileB, FileA>> }

MP4 == <<"m", "p", "4">>
FileList == <<"filelist.txt">>
OutputFile == <<"output.mp4">>

StatusInitial == "Pick two or more videos to get started."
StatusDownloading == "Downloading FFmpeg core..."
StatusFFmpegReady == "FFmpeg ready."
StatusLoadFailed == "Failed to load FFmpeg core."
StatusReadyToJoin == "Ready to join. Adjust the order if needed."
StatusSelectTwo == "Select at least two videos to join."
StatusPreparing == "Preparing files..."
StatusJoining == "Joining videos..."
StatusCombined == "Combined video ready!"
StatusJoinFailed == "Sorry, the join failed."

MsgEmpty == ""
MsgPreview == "You can preview or download the merged file below."
MsgGuidance == "Check that the clips share the same codec/size"
MsgUnknown == "Unknown error"
MsgUnexpected == "Unexpected FFmpeg output format."
MsgEngine == "engine message"
MsgLog == "engine log line"
MsgNotReady == "FFmpeg is not ready"
MsgCancelled == "Cancelled"

\* What an engine call can reject with: an Error carrying a message, or a value
\* without one.
NoMessage == "no message"
Errors == { MsgEngine, NoMessage }

\* The catch blocks showing their fallback text whatever the error carries.
ErrorMessageAlwaysFallback(e, fallback) == fallback

\* (error as Error | undefined)?.message ?? fallback
ErrorMessage(e, fallback) == IF e = NoMessage THEN fallback ELSE e

VARIABLES
    variant,            \* which of the two App versions runs
    clips,              \* useState<Clip[]>
    nextId,             \* ids createId has handed out, plus one
    removed,            \* history: ids removeClip / clearAll took out of the list
    status,             \* useState status
    progressMessage,    \* useState progressMessage
    isLoadingFFmpeg,    \* useState isLoadingFFmpeg
    isJoining,          \* useState isJoining
    isFFmpegReady,      \* useState isFFmpegReady
    outputUrl,          \* useState outputUrl
    ffmpegRef,          \* ffmpegRef.current # null
    readyPromise,       \* ffmpegReadyPromiseRef.current ("mount" version)
    jobs,               \* the handleJoin invocations and where each stands
    joinCalls,          \* handleJoin invocations so far
    fs,                 \* the engine's working storage: name -> contents
    liveUrls,           \* object URLs created and not revoked
    loadCalls,          \* ffmpeg.load calls issued so far
    mounted             \* the App component is mounted (the session has not ended)

vars == << variant, clips, nextId, removed, status, progressMessage,
           isLoadingFFmpeg, isJoining, isFFmpegReady, outputUrl, ffmpegRef,
           readyPromise, jobs, joinCalls, fs, liveUrls, loadCalls, mounted >>

clipVars == << clips, nextId, removed >>
engineVars == << isLoadingFFmpeg, isFFmpegReady, ffmpegRef, readyPromise, loadCalls >>
jobVars == << jobs, joinCalls, isJoining >>
outVars == << outputUrl, liveUrls >>

\* --------------------------------------------------------------- helpers
Max(a, b) == IF a > b THEN a ELSE b
Min(a, b) == IF a < b THEN a ELSE b

Ids(s) == { s[i].id : i \in 1..Len(s) }

\* createId: crypto.randomUUID() (or the Math.random fallback) is taken to
\* return a value no earlier call returned; the n-th call returns n.
createId(n) == n

\* selected.map((file) => ({ id: createId(), file }))
NewClips(selected, first) ==
    [ k \in 1..Len(selected) |-> [ id |-> createId(first + k - 1), name |-> selected[k] ] ]

\* [...prev, ...selected.map(...)]
AppendClips(prev, selected, first) == prev \o NewClips(selected, first)

\* prev.filter((clip) => clip.id !== id)
FilterClips(prev, id) == SelectSeq(prev, LAMBDA c : c.id # id)

\* Array.prototype.splice's start index: negative counts from the end, and
\* the result is clamped to 0..length.
SpliceStart(i, len) == IF i < 0 THEN Max(len + i, 0) ELSE Min(i, len)

\* next.splice(index, 1): the removed items (at most one).
SpliceTaken(s, index) ==
    LET st == SpliceStart(index, Len(s))
    IN  IF st < Len(s) THEN << s[st + 1] >> ELSE << >>

\* next.splice(index, 1): what is left of the array.
SpliceRest(s, index) ==
    LET st == SpliceStart(index, Len(s))
    IN  IF st < Len(s) THEN SubSeq(s, 1, st) \o SubSeq(s, st + 2, Len(s)) ELSE s

\* next.splice(targetIndex, 0, item)
SpliceInsert(s, index, item) ==
    LET st == SpliceStart(index, Len(s))
    IN  SubSeq(s, 1, st) \o << item >> \o SubSeq(s, st + 1, Len(s))

\* moveClip's updater without the first splice: the item is inserted at its
\* target and never taken from its place.
MoveClipsNoRemove(prev, index, delta) ==
    LET targetIndex == index + delta
        taken == SpliceTaken(prev, index)
        item == IF taken = << >> THEN Undefined ELSE taken[1]
    IN  IF targetIndex < 0 \/ targetIndex >= Len(prev)
        THEN prev
        ELSE SpliceInsert(prev, targetIndex, item)

\* moveClip's updater without the targetIndex < 0 half of its range check.
MoveClipsNoLowerCheck(prev, index, delta) ==
    LET targetIndex == index + delta
        taken == SpliceTaken(prev, index)
        item == IF taken = << >> THEN Undefined ELSE taken[1]
    IN  IF targetIndex >= Len(prev)
        THEN prev
        ELSE SpliceInsert(SpliceRest(prev, index), targetIndex, item)

\* The updater moveClip hands to setClips.
MoveClips(prev, index, delta) ==
    LET targetIndex == index + delta
        taken == SpliceTaken(prev, index)
        item == IF taken = << >> THEN Undefined ELSE taken[1]
    IN  IF targetIndex < 0 \/ targetIndex >= Len(prev)
        THEN prev
        ELSE SpliceInsert(SpliceRest(prev, index), targetIndex, item)

\* name.split('.')
RECURSIVE Split(_)
Split(s) ==
    LET dots == { i \in 1..Len(s) : s[i] = "." }
    IN  IF dots = {}
        THEN << s >>
        ELSE LET d == CHOOSE i \in dots : \A k \in dots : i <= k
             IN  << SubSeq(s, 1, d - 1) >> \o Split(SubSeq(s, d + 1, Len(s)))

\* clip.file.name.split('.').pop() ?? 'mp4'
Ext(name) ==
    LET parts == Split(name)
    IN  IF Len(parts) = 0 THEN MP4 ELSE parts[Len(parts)]

\* `clip-${index}.${ext}`
InputName(index, clip) == << "clip-", index, ".", Ext(clip.name) >>

\* inputNames.map((name) => `file '${name}'`).join('\n'): one line per name.
ConcatList(inputNames) == [ k \in 1..Len(inputNames) |-> << "file", inputNames[k] >> ]

\* ffmpeg.writeFile(name, data)
FsWrite(f, name, data) == (name :> data) @@ f

\* ffmpeg.deleteFile(name).catch(() => undefined): the entry goes if it is
\* there; deleting a missing entry rejects, and the rejection is swallowed.
FsDelete(f, names) == [ n \in (DOMAIN f) \ names |-> f[n] ]

EmptyFs == [ n \in {} |-> Null ]

\* The outputUrl effect: when a render changes outputUrl, the cleanup of the
\* previous render's effect revokes the URL that render held.
EffectCleanup(live, old, new) == IF old # new /\ old # NoUrl THEN live \ {old} ELSE live

\* canJoin without its !isJoining conjunct.
canJoinWhileJoining == Len(clips) >= 2 /\ ~isLoadingFFmpeg

\* const canJoin = clips.length >= 2 && !isJoining && !isLoadingFFmpeg
canJoin == Len(clips) >= 2 /\ ~isJoining /\ ~isLoadingFFmpeg

\* ------------------------------------------------------------------ jobs
NewJob == [ pc |-> "new", snap |-> << >>, idx |-> 0, inputNames |-> << >>, err |-> Null ]
Ended(how) == [ pc |-> how, snap |-> << >>, idx |-> 0, inputNames |-> << >>, err |-> Null ]
\* An invocation whose catch block ran with error e (what console.error shows).
Failed(e) == [ Ended("failed") EXCEPT !.err = e ]
JobIds == 1..MaxJobs
InFlight == { "fetch", "load", "await", "del1", "del2", "write", "writeList",
              "exec", "read", "cleanup" }
Running(j) == jobs[j].pc \in InFlight


\* The staging loop reading the list as it is now, where it still has the
\* position, instead of the list its closure holds.
JobClipLive(j, index) ==
    IF index < Len(clips) THEN clips[index + 1] ELSE jobs[j].snap[index + 1]

\* for (const [index, clip] of clips.entries()): the clip at index of the
\* clips the closure of handleJoin invocation j holds.
JobClip(j, index) == jobs[j].snap[index + 1]

\* ------------------------------------------------------------------ Init
\* The state after the component has mounted. In the "mount" version the mount
\* effect has already run loadFFmpeg up to its first await.
Init ==
    /\ variant \in { "lazy", "mount" }
    /\ clips = << >>
    /\ nextId = 1
    /\ removed = {}
    /\ status = IF variant = "mount" THEN StatusDownloading ELSE StatusInitial
    /\ progressMessage = MsgEmpty
    /\ isLoadingFFmpeg = (variant = "mount")
    /\ isJoining = FALSE
    /\ isFFmpegReady = FALSE
    /\ outputUrl = NoUrl
    /\ ffmpegRef = (variant = "mount")
    /\ readyPromise = IF variant = "mount" THEN [ st |-> "fetch", err |-> Null ]
                                           ELSE [ st |-> "none", err |-> Null ]
    /\ jobs = [ j \in JobIds |-> NewJob ]
    /\ joinCalls = 0
    /\ fs = EmptyFs
    /\ liveUrls = {}
    /\ loadCalls = 0
    /\ mounted = TRUE

\* ---------------------------------------------------------- list handlers
handleFileSelection(selected) ==
    IF Len(selected) = 0
    THEN UNCHANGED vars
    ELSE /\ nextId + Len(selected) - 1 <= MaxAdds
         /\ clips' = AppendClips(clips, selected, nextId)
         /\ nextId' = nextId + Len(selected)
         /\ status' = StatusReadyToJoin
         /\ progressMessage' = MsgEmpty
         /\ UNCHANGED << variant, mounted, removed, engineVars, jobVars, outVars, fs >>

removeClip(id) ==
    /\ clips' = FilterClips(clips, id)
    /\ removed' = removed \cup ({id} \cap Ids(clips))
    /\ UNCHANGED << variant, mounted, nextId, status, progressMessage, engineVars, jobVars,
                    outVars, fs >>

moveClip(index, delta) ==
    /\ clips' = MoveClips(clips, index, delta)
    /\ UNCHANGED << variant, mounted, nextId, removed, status, progressMessage, engineVars,
                    jobVars, outVars, fs >>

clearAll ==
    /\ clips' = << >>
    /\ removed' = removed \cup Ids(clips)
    /\ status' = StatusInitial
    /\ progressMessage' = MsgEmpty
    /\ UNCHANGED << variant, mounted, nextId, engineVars, jobVars, outVars, fs >>


\* ------------------------------------------------------------ handleJoin
\* handleJoin's guard off by one: if (clips.length < 1)
TooFewClipsOffByOne(n) == n < 1

\* if (clips.length < 2)
TooFewClips(n) == n < 2

\* handleJoin without setOutputUrl(null) in its if (outputUrl) block.
OutputKeptOnStart(out) == out

\* if (outputUrl) { URL.revokeObjectURL(outputUrl); setOutputUrl(null) }
RevokeOnStart(live, out) == IF out # NoUrl THEN live \ {out} ELSE live
OutputOnStart(out) == IF out # NoUrl THEN NoUrl ELSE out

\* handleJoin without its finally block: isJoining is never reset.
JoiningNotReset == TRUE

\* finally { setIsJoining(false) }
JoiningAfterFinally == FALSE

\* handleJoin's catch without setStatus('Sorry, the join failed.').
JoinFailedKeepsStatus(j, e) ==
    /\ status' = status
    /\ progressMessage' = ErrorMessage(e, MsgGuidance)
    /\ isJoining' = FALSE
    /\ jobs' = [ jobs EXCEPT ![j] = Failed(e) ]

\* The catch and finally blocks of handleJoin, for invocation j failing with e.
JoinFailed(j, e) ==
    /\ status' = StatusJoinFailed
    /\ progressMessage' = ErrorMessage(e, MsgGuidance)
    /\ isJoining' = JoiningAfterFinally
    /\ jobs' = [ jobs EXCEPT ![j] = Failed(e) ]

\* ensureFFmpeg handing out ffmpegRef.current whatever the engine's state.
EnsureStartUnchecked == "ready"

\* ensureFFmpeg without its early return
\* if (ffmpegRef.current && isFFmpegReady) return ffmpegRef.current.
EnsureStartNoEarlyReturn ==
    IF variant = "lazy" THEN "fetch"
    ELSE IF readyPromise.st = "none" THEN "none"
    ELSE IF readyPromise.st = "rejected" THEN "rejected"
    ELSE IF readyPromise.st = "resolved" THEN "ready"
    ELSE "await"

\* ensureFFmpeg up to its first await, as handleJoin calls it:
\*   "ready"    - the engine is ready, it returns ffmpegRef.current;
\*   "fetch"    - "lazy": it starts a load of its own;
\*   "await"    - "mount": it awaits the pending mount load;
\*   "rejected" - "mount": the mount load has failed, the await rethrows;
\*   "none"     - "mount": there is no promise, it throws 'FFmpeg is not ready'.
EnsureStart ==
    IF ffmpegRef /\ isFFmpegReady THEN "ready"
    ELSE IF variant = "lazy" THEN "fetch"
    ELSE IF readyPromise.st = "none" THEN "none"
    ELSE IF readyPromise.st = "rejected" THEN "rejected"
    ELSE IF readyPromise.st = "resolved" THEN "ready"
    ELSE "await"

\* handleJoin, from its call to its first await of an engine call.
handleJoin ==
    /\ joinCalls < MaxJobs
    /\ LET j == joinCalls + 1
           how == EnsureStart
       IN  /\ joinCalls' = j
           /\ UNCHANGED << variant, mounted, clipVars, fs >>
           /\ IF TooFewClips(Len(clips))
              THEN /\ status' = StatusSelectTwo
                   /\ jobs' = [ jobs EXCEPT ![j] = Ended("rejected") ]
                   /\ UNCHANGED << progressMessage, isJoining, engineVars, outVars >>
              ELSE /\ outputUrl' = OutputOnStart(outputUrl)
                   /\ liveUrls' = EffectCleanup(RevokeOnStart(liveUrls, outputUrl),
                                                outputUrl, outputUrl')
                   /\ CASE how = "ready" ->
                             /\ status' = StatusPreparing
                             /\ progressMessage' = MsgEmpty
                             /\ isJoining' = TRUE
                             /\ jobs' = [ jobs EXCEPT ![j] =
                                    [ pc |-> "del1", snap |-> clips, idx |-> 0,
                                      inputNames |-> << >>, err |-> Null ] ]
                             /\ UNCHANGED engineVars
                        [] how = "fetch" ->
                             /\ status' = StatusDownloading
                             /\ progressMessage' = MsgEmpty
                             /\ isJoining' = TRUE
                             /\ ffmpegRef' = TRUE
                             /\ isLoadingFFmpeg' = TRUE
                             /\ jobs' = [ jobs EXCEPT ![j] =
                                    [ pc |-> "fetch", snap |-> clips, idx |-> 0,
                                      inputNames |-> << >>, err |-> Null ] ]
                             /\ UNCHANGED << isFFmpegReady, readyPromise, loadCalls >>
                        [] how = "await" ->
                             /\ status' = StatusPreparing
                             /\ progressMessage' = MsgEmpty
                             /\ isJoining' = TRUE
                             /\ jobs' = [ jobs EXCEPT ![j] =
                                    [ pc |-> "await", snap |-> clips, idx |-> 0,
                                      inputNames |-> << >>, err |-> Null ] ]
                             /\ UNCHANGED engineVars
                        [] how = "rejected" ->
                             /\ JoinFailed(j, readyPromise.err)
                             /\ UNCHANGED engineVars
                        [] how = "none" ->
                             /\ JoinFailed(j, MsgNotReady)
                             /\ UNCHANGED engineVars


\* ----------------------------------------------------------- engine load
\* "lazy" ensureFFmpeg: Promise.all of the two toBlobURL fetches has settled.
LazyFetchDone(j) ==
    /\ jobs[j].pc = "fetch"
    /\ \E ok \in BOOLEAN, e \in Errors :
         IF ok
         THEN /\ jobs' = [ jobs EXCEPT ![j].pc = "load" ]
              /\ loadCalls' = loadCalls + 1
              /\ UNCHANGED << variant, mounted, clipVars, status, progressMessage,
                              isLoadingFFmpeg, isJoining, isFFmpegReady, ffmpegRef,
                              readyPromise, joinCalls, outVars, fs >>
         ELSE /\ isLoadingFFmpeg' = FALSE
              /\ JoinFailed(j, e)
              /\ UNCHANGED << variant, mounted, clipVars, isFFmpegReady, ffmpegRef,
                              readyPromise, loadCalls, joinCalls, outVars, fs >>

\* "lazy" ensureFFmpeg: ffmpeg.load has settled; on success handleJoin goes on
\* to its first deleteFile.
LazyLoadDone(j) ==
    /\ jobs[j].pc = "load"
    /\ \E ok \in BOOLEAN, e \in Errors :
         IF ok
         THEN /\ isFFmpegReady' = TRUE
              /\ status' = StatusFFmpegReady
              /\ progressMessage' = MsgEmpty
              /\ isLoadingFFmpeg' = FALSE
              /\ jobs' = [ jobs EXCEPT ![j].pc = "del1" ]
              /\ UNCHANGED << variant, mounted, clipVars, isJoining, ffmpegRef, readyPromise,
                              loadCalls, joinCalls, outVars, fs >>
         ELSE /\ isLoadingFFmpeg' = FALSE
              /\ JoinFailed(j, e)
              /\ UNCHANGED << variant, mounted, clipVars, isFFmpegReady, ffmpegRef,
                              readyPromise, loadCalls, joinCalls, outVars, fs >>

\* The handleJoin invocations awaiting the mount load's promise.
Awaiting == { j \in JobIds : jobs[j].pc = "await" }

\* "mount" loadFFmpeg rejects with e: its catch and finally, then the catch and
\* finally of every handleJoin that awaits the promise.
MountRejected(e) ==
    /\ isLoadingFFmpeg' = FALSE
    /\ readyPromise' = [ st |-> "rejected", err |-> e ]
    /\ IF Awaiting = {}
       THEN /\ status' = StatusLoadFailed
            /\ progressMessage' = ErrorMessage(e, MsgUnknown)
            /\ UNCHANGED << jobs, isJoining >>
       ELSE /\ status' = StatusJoinFailed
            /\ progressMessage' = ErrorMessage(e, MsgGuidance)
            /\ isJoining' = JoiningAfterFinally
            /\ jobs' = [ j \in JobIds |->
                           IF j \in Awaiting THEN Failed(e) ELSE jobs[j] ]
    /\ UNCHANGED << variant, mounted, clipVars, isFFmpegReady, ffmpegRef, loadCalls,
                    joinCalls, outVars, fs >>

\* "mount" loadFFmpeg: the two toBlobURL fetches have settled.
MountFetchDone ==
    /\ readyPromise.st = "fetch"
    /\ \E ok \in BOOLEAN, e \in Errors :
         IF ok
         THEN /\ readyPromise' = [ readyPromise EXCEPT !.st = "load" ]
              /\ loadCalls' = loadCalls + 1
              /\ UNCHANGED << variant, mounted, clipVars, status, progressMessage,
                              isLoadingFFmpeg, isJoining, isFFmpegReady, ffmpegRef,
                              jobs, joinCalls, outVars, fs >>
         ELSE MountRejected(e)

\* "mount" loadFFmpeg: ffmpeg.load has settled; on success every handleJoin
\* that awaits the promise goes on to its first deleteFile.
MountLoadDone ==
    /\ readyPromise.st = "load"
    /\ \E ok \in BOOLEAN, e \in Errors :
         IF ok
         THEN /\ isFFmpegReady' = TRUE
              /\ status' = StatusInitial
              /\ progressMessage' = MsgEmpty
              /\ isLoadingFFmpeg' = FALSE
              /\ readyPromise' = [ readyPromise EXCEPT !.st = "resolved" ]
              /\ jobs' = [ j \in JobIds |->
                             IF j \in Awaiting THEN [ jobs[j] EXCEPT !.pc = "del1" ]
                                               ELSE jobs[j] ]
              /\ UNCHANGED << variant, mounted, clipVars, isJoining, ffmpegRef, loadCalls,
                              joinCalls, outVars, fs >>
         ELSE MountRejected(e)

\* ----------------------------------------------------- handleJoin, staging
\* await ffmpeg.deleteFile('filelist.txt').catch(() => undefined)
Del1Done(j) ==
    /\ jobs[j].pc = "del1"
    /\ fs' = FsDelete(fs, { FileList })
    /\ jobs' = [ jobs EXCEPT ![j].pc = "del2" ]
    /\ UNCHANGED << variant, mounted, clipVars, status, progressMessage, engineVars,
                    isJoining, joinCalls, outVars >>

\* await ffmpeg.deleteFile('output.mp4').catch(() => undefined), then the first
\* turn of the loop up to its writeFile.
Del2Done(j) ==
    /\ jobs[j].pc = "del2"
    /\ fs' = FsDelete(fs, { OutputFile })
    /\ jobs' = [ jobs EXCEPT ![j].pc = "write",
                             ![j].idx = 0,
                             ![j].inputNames = << InputName(0, JobClip(j, 0)) >> ]
    /\ UNCHANGED << variant, mounted, clipVars, status, progressMessage, engineVars,
                    isJoining, joinCalls, outVars >>

\* The loop writing every clip under the first name it pushed.
WrittenNameFirst(job) == job.inputNames[1]

\* The name the pending writeFile of the loop writes: the one pushed last.
WrittenName(job) == job.inputNames[Len(job.inputNames)]

\* The bytes fetchFile(clip.file) reads: those of the clip's own file.
ClipBytes(clip) == << "bytes", clip.id >>

\* await ffmpeg.writeFile(inputName, await fetchFile(clip.file)) has settled;
\* on success the next turn of the loop, or the writeFile of the playlist.
WriteDone(j) ==
    /\ jobs[j].pc = "write"
    /\ \E ok \in BOOLEAN, e \in Errors :
         LET job == jobs[j]
             next == job.idx + 1
         IN  IF ok
             THEN /\ fs' = FsWrite(fs, WrittenName(job), ClipBytes(JobClip(j, job.idx)))
                  /\ jobs' = IF next < Len(job.snap)
                             THEN [ jobs EXCEPT ![j].idx = next,
                                                ![j].inputNames = Append(job.inputNames,
                                                    InputName(next, JobClip(j, next))) ]
                             ELSE [ jobs EXCEPT ![j].pc = "writeList" ]
                  /\ UNCHANGED << variant, mounted, clipVars, status, progressMessage,
                                  engineVars, isJoining, joinCalls, outVars >>
             ELSE /\ JoinFailed(j, e)
                  /\ UNCHANGED << variant, mounted, clipVars, engineVars, joinCalls, outVars, fs >>

\* The playlist written and exec called without setStatus('Joining videos...').
WriteListDoneNoStatus(j) ==
    /\ jobs[j].pc = "writeList"
    /\ \E ok \in BOOLEAN, e \in Errors :
         IF ok
         THEN /\ fs' = FsWrite(fs, FileList, ConcatList(jobs[j].inputNames))
              /\ jobs' = [ jobs EXCEPT ![j].pc = "exec" ]
              /\ UNCHANGED << variant, mounted, clipVars, status, progressMessage, engineVars,
                              isJoining, joinCalls, outVars >>
         ELSE /\ JoinFailed(j, e)
              /\ UNCHANGED << variant, mounted, clipVars, engineVars, joinCalls, outVars, fs >>

\* await ffmpeg.writeFile('filelist.txt', listData) has settled; on success
\* setStatus('Joining videos...') and the exec call.
WriteListDone(j) ==
    /\ jobs[j].pc = "writeList"
    /\ \E ok \in BOOLEAN, e \in Errors :
         IF ok
         THEN /\ fs' = FsWrite(fs, FileList, ConcatList(jobs[j].inputNames))
              /\ status' = StatusJoining
              /\ jobs' = [ jobs EXCEPT ![j].pc = "exec" ]
              /\ UNCHANGED << variant, mounted, clipVars, progressMessage, engineVars,
                              isJoining, joinCalls, outVars >>
         ELSE /\ JoinFailed(j, e)
              /\ UNCHANGED << variant, mounted, clipVars, engineVars, joinCalls, outVars, fs >>


\* ------------------------------------------- handleJoin, concat and readback
\* The engine can run the playlist in storage: it is there, and so is every
\* file it lists.
Playable(f) ==
    /\ FileList \in DOMAIN f
    /\ \A k \in 1..Len(f[FileList]) : f[FileList][k][2] \in DOMAIN f

\* What the stream-copy concat writes: the listed files' bytes, in list order.
Joined(f) == << "joined", [ k \in 1..Len(f[FileList]) |-> f[f[FileList][k][2]] ] >>

\* await ffmpeg.exec([... 'filelist.txt', '-c', 'copy', 'output.mp4']) has
\* settled. The value it resolves with is not looked at; whether output.mp4
\* exists afterwards is the engine's business. On resolution, the readFile call.
ExecDone(j) ==
    /\ jobs[j].pc = "exec"
    /\ \E ok \in BOOLEAN, wrote \in BOOLEAN, e \in Errors :
         IF ok
         THEN /\ fs' = IF wrote /\ Playable(fs) THEN FsWrite(fs, OutputFile, Joined(fs))
                                                ELSE fs
              /\ jobs' = [ jobs EXCEPT ![j].pc = "read" ]
              /\ UNCHANGED << variant, mounted, clipVars, status, progressMessage, engineVars,
                              isJoining, joinCalls, outVars >>
         ELSE /\ fs' = IF wrote THEN FsWrite(fs, OutputFile, << "partial" >>) ELSE fs
              /\ JoinFailed(j, e)
              /\ UNCHANGED << variant, mounted, clipVars, engineVars, joinCalls, outVars >>

\* await ffmpeg.readFile('output.mp4') has settled: with a Uint8Array
\* ("bytes"), with something else ("other"), or rejected. On bytes the object
\* URL is created and retained and the cleanup deleteFile calls are issued.
ReadDone(j) ==
    /\ jobs[j].pc = "read"
    /\ \E r \in { "bytes", "other", "reject" }, e \in Errors :
         /\ r # "reject" => OutputFile \in DOMAIN fs
         /\ CASE r = "bytes" ->
                   /\ outputUrl' = Url(j)
                   /\ liveUrls' = EffectCleanup(liveUrls \cup { Url(j) }, outputUrl, Url(j))
                   /\ status' = StatusCombined
                   /\ progressMessage' = MsgPreview
                   /\ jobs' = [ jobs EXCEPT ![j].pc = "cleanup" ]
                   /\ UNCHANGED << variant, mounted, clipVars, engineVars, isJoining, joinCalls, fs >>
              [] r = "other" ->
                   /\ JoinFailed(j, MsgUnexpected)
                   /\ UNCHANGED << variant, mounted, clipVars, engineVars, joinCalls, outVars, fs >>
              [] r = "reject" ->
                   /\ JoinFailed(j, e)
                   /\ UNCHANGED << variant, mounted, clipVars, engineVars, joinCalls, outVars, fs >>

\* The names the success path's Promise.all of deleteFile calls releases.
CleanupNames(job) ==
    { job.inputNames[k] : k \in 1..Len(job.inputNames) } \cup { FileList, OutputFile }

\* The Promise.all of the cleanup deleteFile calls has settled; finally.
CleanupDone(j) ==
    /\ jobs[j].pc = "cleanup"
    /\ fs' = FsDelete(fs, CleanupNames(jobs[j]))
    /\ jobs' = [ jobs EXCEPT ![j] = Ended("done") ]
    /\ isJoining' = JoiningAfterFinally
    /\ UNCHANGED << variant, mounted, clipVars, status, progressMessage, engineVars,
                    joinCalls, outVars >>

\* A log handler that also writes the status line.
EngineLogSetsStatus ==
    /\ ffmpegRef
    /\ \/ readyPromise.st = "load"
       \/ \E j \in JobIds : jobs[j].pc \in { "load", "exec" }
    /\ progressMessage' = MsgLog
    /\ status' = MsgLog
    /\ UNCHANGED << variant, mounted, clipVars, engineVars, jobVars, outVars, fs >>

\* ffmpeg.on('log', ({ message }) => setProgressMessage(message)): the engine
\* emits a line while it loads or runs.
EngineLog ==
    /\ ffmpegRef
    /\ \/ readyPromise.st = "load"
       \/ \E j \in JobIds : jobs[j].pc \in { "load", "exec" }
    /\ progressMessage' = MsgLog
    /\ UNCHANGED << variant, mounted, clipVars, status, engineVars, jobVars, outVars, fs >>

\* ------------------------------------------------------------ session end
\* The component unmounts: the cleanup of the outputUrl effect revokes the URL
\* the last render held; in the "mount" version the cleanup of the mount
\* effect sets cancelled. The state the hooks held is gone with the component.
Unmount ==
    /\ mounted
    /\ mounted' = FALSE
    /\ liveUrls' = IF outputUrl # NoUrl THEN liveUrls \ { outputUrl } ELSE liveUrls
    /\ UNCHANGED << variant, clipVars, status, progressMessage, engineVars, jobVars,
                    outputUrl, fs >>

\* What no step changes once the component is unmounted: a state setter
\* called then does nothing, and no effect or cleanup runs any more.
Frozen == << variant, mounted, clipVars, status, progressMessage, isLoadingFFmpeg,
             isJoining, isFFmpegReady, outputUrl, ffmpegRef, joinCalls >>

\* The async functions go on after the unmount: every engine call they await
\* settles and the next one is issued as before.
\* "lazy" ensureFFmpeg: the two toBlobURL fetches have settled.
DetachedFetchDone(j) ==
    /\ ~mounted
    /\ jobs[j].pc = "fetch"
    /\ \E ok \in BOOLEAN, e \in Errors :
         IF ok
         THEN /\ jobs' = [ jobs EXCEPT ![j].pc = "load" ]
              /\ loadCalls' = loadCalls + 1
         ELSE /\ jobs' = [ jobs EXCEPT ![j] = Failed(e) ]
              /\ UNCHANGED loadCalls
    /\ UNCHANGED << Frozen, readyPromise, fs, liveUrls >>

\* "lazy" ensureFFmpeg: ffmpeg.load has settled.
DetachedLoadDone(j) ==
    /\ ~mounted
    /\ jobs[j].pc = "load"
    /\ \E ok \in BOOLEAN, e \in Errors :
         jobs' = IF ok THEN [ jobs EXCEPT ![j].pc = "del1" ]
                       ELSE [ jobs EXCEPT ![j] = Failed(e) ]
    /\ UNCHANGED << Frozen, readyPromise, loadCalls, fs, liveUrls >>

\* "mount" loadFFmpeg: the call it awaits has settled; cancelled is set, so it
\* throws 'Cancelled' whatever the outcome, and so does every handleJoin that
\* awaits its promise.
DetachedMountDone ==
    /\ ~mounted
    /\ readyPromise.st \in { "fetch", "load" }
    /\ readyPromise' = [ st |-> "rejected", err |-> MsgCancelled ]
    /\ jobs' = [ j \in JobIds |->
                   IF j \in Awaiting THEN Failed(MsgCancelled) ELSE jobs[j] ]
    /\ UNCHANGED << Frozen, loadCalls, fs, liveUrls >>

DetachedDel1Done(j) ==
    /\ ~mounted
    /\ jobs[j].pc = "del1"
    /\ fs' = FsDelete(fs, { FileList })
    /\ jobs' = [ jobs EXCEPT ![j].pc = "del2" ]
    /\ UNCHANGED << Frozen, readyPromise, loadCalls, liveUrls >>

DetachedDel2Done(j) ==
    /\ ~mounted
    /\ jobs[j].pc = "del2"
    /\ fs' = FsDelete(fs, { OutputFile })
    /\ jobs' = [ jobs EXCEPT ![j].pc = "write",
                             ![j].idx = 0,
                             ![j].inputNames = << InputName(0, JobClip(j, 0)) >> ]
    /\ UNCHANGED << Frozen, readyPromise, loadCalls, liveUrls >>

DetachedWriteDone(j) ==
    /\ ~mounted
    /\ jobs[j].pc = "write"
    /\ \E ok \in BOOLEAN, e \in Errors :
         LET job == jobs[j]
             next == job.idx + 1
         IN  IF ok
             THEN /\ fs' = FsWrite(fs, WrittenName(job), ClipBytes(JobClip(j, job.idx)))
                  /\ jobs' = IF next < Len(job.snap)
                             THEN [ jobs EXCEPT ![j].idx = next,
                                                ![j].inputNames = Append(job.inputNames,
                                                    InputName(next, JobClip(j, next))) ]
                             ELSE [ jobs EXCEPT ![j].pc = "writeList" ]
             ELSE /\ jobs' = [ jobs EXCEPT ![j] = Failed(e) ]
                  /\ UNCHANGED fs
    /\ UNCHANGED << Frozen, readyPromise, loadCalls, liveUrls >>

DetachedWriteListDone(j) ==
    /\ ~mounted
    /\ jobs[j].pc = "writeList"
    /\ \E ok \in BOOLEAN, e \in Errors :
         IF ok
         THEN /\ fs' = FsWrite(fs, FileList, ConcatList(jobs[j].inputNames))
              /\ jobs' = [ jobs EXCEPT ![j].pc = "exec" ]
         ELSE /\ jobs' = [ jobs EXCEPT ![j] = Failed(e) ]
              /\ UNCHANGED fs
    /\ UNCHANGED << Frozen, readyPromise, loadCalls, liveUrls >>

DetachedExecDone(j) ==
    /\ ~mounted
    /\ jobs[j].pc = "exec"
    /\ \E ok \in BOOLEAN, wrote \in BOOLEAN, e \in Errors :
         IF ok
         THEN /\ fs' = IF wrote /\ Playable(fs) THEN FsWrite(fs, OutputFile, Joined(fs))
                                                ELSE fs
              /\ jobs' = [ jobs EXCEPT ![j].pc = "read" ]
         ELSE /\ fs' = IF wrote THEN FsWrite(fs, OutputFile, << "partial" >>) ELSE fs
              /\ jobs' = [ jobs EXCEPT ![j] = Failed(e) ]
    /\ UNCHANGED << Frozen, readyPromise, loadCalls, liveUrls >>

\* readFile has settled: on bytes URL.createObjectURL(blob) is called as
\* before; setOutputUrl(url) does nothing, and no effect is left to revoke it.
DetachedReadDone(j) ==
    /\ ~mounted
    /\ jobs[j].pc = "read"
    /\ \E r \in { "bytes", "other", "reject" }, e \in Errors :
         /\ r # "reject" => OutputFile \in DOMAIN fs
         /\ CASE r = "bytes" ->
                   /\ liveUrls' = liveUrls \cup { Url(j) }
                   /\ jobs' = [ jobs EXCEPT ![j].pc = "cleanup" ]
              [] r = "other" ->
                   /\ jobs' = [ jobs EXCEPT ![j] = Failed(MsgUnexpected) ]
                   /\ UNCHANGED liveUrls
              [] r = "reject" ->
                   /\ jobs' = [ jobs EXCEPT ![j] = Failed(e) ]
                   /\ UNCHANGED liveUrls
    /\ UNCHANGED << Frozen, readyPromise, loadCalls, fs >>

DetachedCleanupDone(j) ==
    /\ ~mounted
    /\ jobs[j].pc = "cleanup"
    /\ fs' = FsDelete(fs, CleanupNames(jobs[j]))
    /\ jobs' = [ jobs EXCEPT ![j] = Ended("done") ]
    /\ UNCHANGED << Frozen, readyPromise, loadCalls, liveUrls >>

\* ---------------------------------------------------------------- actions
\* The file input's onChange; the input is never disabled.
SelectFiles == \E selected \in Selections : handleFileSelection(selected)

\* A click on a row's Remove button: disabled={isJoining}.
ClickRemove ==
    /\ ~isJoining
    /\ \E i \in 1..Len(clips) : removeClip(clips[i].id)

\* A click on a row's up or down button: disabled at the ends of the list and
\* while joining.
ClickMove ==
    /\ ~isJoining
    /\ \E index \in 0..(Len(clips) - 1), delta \in { -1, 1 } :
         /\ ~(delta = -1 /\ index = 0)
         /\ ~(delta = 1 /\ index = Len(clips) - 1)
         /\ moveClip(index, delta)

\* A click on "Clear list": disabled={!clips.length || isJoining}.
ClickClear ==
    /\ Len(clips) # 0
    /\ ~isJoining
    /\ clearAll

\* A click on "Join videos": disabled={!canJoin}.
ClickJoin ==
    /\ canJoin
    /\ handleJoin

\* The handlers called as the functions they are, whatever the controls show.
CallRemove == \E id \in 1..MaxAdds : removeClip(id)
CallMove ==
    \E index \in 0..Max(Len(clips) - 1, 0), delta \in { -1, 1 } : moveClip(index, delta)
CallClear == clearAll
CallJoin == handleJoin

LazyFetch == \E j \in JobIds : LazyFetchDone(j)
LazyLoad == \E j \in JobIds : LazyLoadDone(j)
DeleteList == \E j \in JobIds : Del1Done(j)
DeleteOutput == \E j \in JobIds : Del2Done(j)
StageClip == \E j \in JobIds : WriteDone(j)
StageList == \E j \in JobIds : WriteListDone(j)
Concat == \E j \in JobIds : ExecDone(j)
Readback == \E j \in JobIds : ReadDone(j)
Cleanup == \E j \in JobIds : CleanupDone(j)

\* The completion of an engine call some flow is awaiting.
EngineStep ==
    \/ LazyFetch
    \/ LazyLoad
    \/ MountFetchDone
    \/ MountLoadDone
    \/ DeleteList
    \/ DeleteOutput
    \/ StageClip
    \/ StageList
    \/ Concat
    \/ Readback
    \/ Cleanup

\* The page as the user drives it: handlers fire through enabled controls.
Next ==
    \/ SelectFiles
    \/ ClickRemove
    \/ ClickMove
    \/ ClickClear
    \/ ClickJoin
    \/ EngineStep
    \/ EngineLog

Spec == Init /\ [][Next]_vars

\* The handlers as an interface: any of them may be called in any state.
\* The page, with handleJoin also called as the function it is, whatever the
\* "Join videos" button shows.
NextApi ==
    \/ Next
    \/ CallJoin

SpecApi == Init /\ [][NextApi]_vars

\* The page, with removeClip and moveClip also called as the functions they
\* are, whatever their buttons show.
NextAnyTime ==
    \/ Next
    \/ CallRemove
    \/ CallMove

SpecAnyTime == Init /\ [][NextAnyTime]_vars

\* The list handlers alone, called with any id and any index of the list.
NextList ==
    \/ SelectFiles
    \/ CallRemove
    \/ CallMove
    \/ CallClear

SpecList == Init /\ [][NextList]_vars

\* The completion of an engine call after the component has unmounted.
DetachedStep ==
    \/ \E j \in JobIds : DetachedFetchDone(j)
    \/ \E j \in JobIds : DetachedLoadDone(j)
    \/ DetachedMountDone
    \/ \E j \in JobIds : DetachedDel1Done(j)
    \/ \E j \in JobIds : DetachedDel2Done(j)
    \/ \E j \in JobIds : DetachedWriteDone(j)
    \/ \E j \in JobIds : DetachedWriteListDone(j)
    \/ \E j \in JobIds : DetachedExecDone(j)
    \/ \E j \in JobIds : DetachedReadDone(j)
    \/ \E j \in JobIds : DetachedCleanupDone(j)

\* The page until the component unmounts, and what still runs afterwards.
NextSession ==
    \/ mounted /\ Next
    \/ Unmount
    \/ DetachedStep

SpecSession == Init /\ [][NextSession]_vars

\* The page under the assumption that every engine call eventually completes.
SpecLive == Init /\ [][Next]_vars /\ WF_vars(EngineStep)


\* ================================================================ claims

\* ---- C1 (SpecList)
\* The clips of s whose id is in keep, in the order s has them.
Restrict(s, keep) == SelectSeq(s, LAMBDA c : c.id \in keep)

\* s with the clips at positions i and i + 1 exchanged.
SwapAdjacent(s, i) == [ s EXCEPT ![i] = s[i + 1], ![i + 1] = s[i] ]

\* One step keeps the clips it does not remove in their order and puts the
\* clips it creates behind them in creation order, or exchanges two neighbours.
C1_OrderStep ==
    \/ \E k \in 0..Len(clips') :
         /\ SubSeq(clips', 1, k) = Restrict(clips, Ids(clips'))
         /\ \A m \in (k + 1)..Len(clips') : clips'[m].id = nextId + (m - k - 1)
    \/ \E i \in 1..(Len(clips) - 1) : clips' = SwapAdjacent(clips, i)

\* C1: after every addClips / removeClip / moveClip (and clearAll) call the
\* list holds exactly the clips created and not removed, no id twice, and the
\* call changed the order only as that operation implies.
C1_ListHoldsAddedNotRemoved ==
    [][ /\ Ids(clips') = (1..(nextId' - 1)) \ removed'
        /\ Len(clips') = Cardinality(Ids(clips'))
        /\ C1_OrderStep ]_vars

C1_Witness ==
    /\ Len(clips) = 2
    /\ removed # {}
    /\ clips[1].id > clips[2].id

\* ---- C2 (Spec)
\* C2: once a job has staged its playlist, filelist.txt has one line per clip
\* of the sequence the job was submitted with, line i names the entry that
\* holds the bytes of clip i, and the names are pairwise distinct.
C2_PlaylistMatchesSubmission ==
    \A j \in JobIds :
        jobs[j].pc \in { "exec", "read" } =>
            /\ FileList \in DOMAIN fs
            /\ LET list == fs[FileList]
                   snap == jobs[j].snap
               IN  /\ Len(list) = Len(snap)
                   /\ \A i \in 1..Len(list) :
                        /\ list[i][1] = "file"
                        /\ list[i][2] \in DOMAIN fs
                        /\ fs[list[i][2]] = ClipBytes(snap[i])
                   /\ \A i, k \in 1..Len(list) : i # k => list[i][2] # list[k][2]

C2_Witness ==
    \E j \in JobIds :
        /\ jobs[j].pc = "exec"
        /\ Len(jobs[j].snap) = 3
        /\ jobs[j].snap[1].id > jobs[j].snap[2].id

\* ---- C3 (Spec)
\* C3: at most one handleJoin invocation is in flight, and while one is the
\* job sub-state is JobRunning (isJoining), which disables the join control.
C3_OneJobInFlight ==
    /\ Cardinality({ j \in JobIds : Running(j) }) <= 1
    /\ (\E j \in JobIds : Running(j)) => (isJoining /\ ~canJoin)

C3_Witness ==
    /\ Running(1)
    /\ Len(clips) >= 2
    /\ ~isLoadingFFmpeg
    /\ joinCalls < MaxJobs

\* ---- C4 (SpecApi)
\* Engine initializations in flight: loads started by ensureFFmpeg calls of
\* the "lazy" version, and the mount load of the "mount" version.
LoadsInFlight ==
    Cardinality({ j \in JobIds : jobs[j].pc \in { "fetch", "load" } })
    + (IF readyPromise.st \in { "fetch", "load" } THEN 1 ELSE 0)

\* C4: at most one engine initialization is in flight at a time, however many
\* ensureFFmpeg calls are pending: a call made while one is pending starts no
\* load of its own.
C4_OneInitInFlight == LoadsInFlight <= 1

\* ---- C5 (SpecApi)
\* C5: a handleJoin call made with fewer than 2 clips changes the status text
\* to the rejection and nothing else: no job starts, no engine call is issued,
\* and the list, isJoining and the retained artifact stay as they are.
C5_TooFewClipsRejected ==
    [][ (joinCalls' # joinCalls /\ Len(clips) < 2) =>
            /\ status' = StatusSelectTwo
            /\ \A j \in JobIds : ~Running(j) => jobs'[j].pc \notin InFlight
            /\ UNCHANGED << clips, nextId, removed, progressMessage, isLoadingFFmpeg,
                            isJoining, isFFmpegReady, outputUrl, ffmpegRef,
                            readyPromise, fs, liveUrls, loadCalls >> ]_vars

C5_Witness ==
    \E j \in JobIds :
        /\ jobs[j].pc = "rejected"
        /\ status = StatusSelectTwo
        /\ outputUrl # NoUrl


\* ---- C6 (Spec)
\* C6: when the latest handleJoin invocation has failed, the engine's working
\* storage holds no entry: every clip-<index> input, filelist.txt and
\* output.mp4 has been released.
C6_NoLeftoversAfterFailure ==
    (joinCalls >= 1 /\ jobs[joinCalls].pc = "failed") => DOMAIN fs = {}

\* ---- C7 (SpecLive)
\* C7: every handleJoin invocation in flight leads to a state in which it has
\* ended, isJoining is false and the join control is enabled again whenever
\* the list holds at least 2 clips.
C7_JobReturnsToIdle ==
    \A j \in JobIds :
        Running(j) ~> ( /\ jobs[j].pc \in { "done", "failed" }
                        /\ ~isJoining
                        /\ (Len(clips) >= 2 => canJoin) )

C7_Witness ==
    \E j \in JobIds :
        /\ jobs[j].pc = "failed"
        /\ ~isFFmpegReady
        /\ loadCalls >= 1
        /\ ~isJoining
        /\ canJoin

\* ---- C8 (Spec)
\* C8: the step in which a handleJoin invocation fails leaves no output
\* artifact retained (outputUrl is null and no object URL is live), the status
\* the failure status, and the job sub-state Idle.
C8_FailureRetainsNothing ==
    [][ \A j \in JobIds :
            (jobs[j].pc # "failed" /\ jobs'[j].pc = "failed") =>
                /\ outputUrl' = NoUrl
                /\ liveUrls' = {}
                /\ status' = StatusJoinFailed
                /\ ~isJoining' ]_vars

C8_Witness ==
    /\ jobs[1].pc = "done"
    /\ jobs[2].pc = "failed"
    /\ progressMessage = MsgUnexpected
    /\ outputUrl = NoUrl

\* ---- C9 (Spec)
\* C9: an invocation that has succeeded retains exactly one artifact, its own,
\* until the next invocation; an invocation that has not yet produced its
\* artifact runs with the previous one released; never are two URLs live.
C9_OneArtifactRetained ==
    /\ Cardinality(liveUrls) <= 1
    /\ \A j \in JobIds :
         /\ (jobs[j].pc \in { "cleanup", "done" } /\ j = joinCalls) =>
                (outputUrl = Url(j) /\ liveUrls = { Url(j) })
         /\ (jobs[j].pc \in InFlight \ { "cleanup" }) =>
                (outputUrl = NoUrl /\ liveUrls = {})

C9_Witness ==
    /\ jobs[1].pc = "done"
    /\ jobs[2].pc = "cleanup"
    /\ outputUrl = Url(2)
    /\ liveUrls = { Url(2) }

\* ---- C10 (Spec)
\* C10: after clearAll (the list is empty and the status is the initial one)
\* no output artifact is retained and no object URL is live.
C10_ClearDiscardsArtifact ==
    (clips = << >> /\ status = StatusInitial /\ progressMessage = MsgEmpty) =>
        (outputUrl = NoUrl /\ liveUrls = {})

\* ---- C16 (SpecList)
\* C16: for every clip sequence the list can hold, moveClip(0, up) and
\* moveClip(last, down) return the sequence unchanged.
C16_MoveAtEndsIsNoOp ==
    /\ MoveClips(clips, 0, -1) = clips
    /\ MoveClips(clips, Len(clips) - 1, 1) = clips

C16_Witness ==
    /\ Len(clips) = 3
    /\ clips[1].id = 3
    /\ clips[3].id = 1

\* ---- C14 (Spec)
\* C14: once the engine is ready, every step (a failing join step included)
\* leaves it ready and issues no engine load, and a handleJoin invocation
\* started then goes straight to its first staging call.
C14_ReadyEngineReused ==
    [][ isFFmpegReady =>
            /\ isFFmpegReady'
            /\ ffmpegRef'
            /\ ~isLoadingFFmpeg'
            /\ loadCalls' = loadCalls
            /\ \A j \in JobIds :
                 (jobs[j].pc = "new" /\ jobs'[j].pc # "new") => jobs'[j].pc = "del1" ]_vars

C14_Witness ==
    /\ isFFmpegReady
    /\ jobs[1].pc = "failed"
    /\ jobs[2].pc = "del1"
    /\ loadCalls = 1

\* ---- C19 (Spec)
\* A step that puts an engine log line on the diagnostic line.
LogStep == progressMessage' = MsgLog /\ progressMessage # MsgLog

\* An engine load or a handleJoin invocation is in flight.
OperationInFlight ==
    \/ readyPromise.st \in { "fetch", "load" }
    \/ \E j \in JobIds : Running(j)

\* C19: a log event changes progressMessage and nothing else, it enables and
\* disables no handler and no engine continuation, and once no load or join
\* is in flight the state holds no trace of the log lines shown meanwhile.
C19_LogsAreAdvisory ==
    /\ [][ LogStep =>
             /\ UNCHANGED << variant, mounted, clips, nextId, removed, status, isLoadingFFmpeg,
                             isJoining, isFFmpegReady, outputUrl, ffmpegRef,
                             readyPromise, jobs, joinCalls, fs, liveUrls, loadCalls >>
             /\ (ENABLED EngineStep)' = ENABLED EngineStep
             /\ (ENABLED ClickJoin)' = ENABLED ClickJoin
             /\ (ENABLED ClickRemove)' = ENABLED ClickRemove
             /\ (ENABLED ClickMove)' = ENABLED ClickMove
             /\ (ENABLED ClickClear)' = ENABLED ClickClear ]_vars
    /\ [](~OperationInFlight => progressMessage # MsgLog)

C19_Witness ==
    /\ progressMessage = MsgLog
    /\ status = StatusJoining
    /\ jobs[2].pc = "exec"
    /\ jobs[1].pc = "done"

\* ---- C18 (Spec)
\* C18: the step in which the pending exec call rejects sets the status to the
\* failure status and the diagnostic line to the rejection's message when it
\* carries one and to the generic guidance when it carries none, ends the
\* invocation without starting another, and a failed invocation never resumes.
C18_ConcatFailureReported ==
    [][ \A j \in JobIds :
            /\ (jobs[j].pc = "exec" /\ jobs'[j].pc = "failed") =>
                   /\ status' = StatusJoinFailed
                   /\ jobs'[j].err = MsgEngine => progressMessage' = MsgEngine
                   /\ jobs'[j].err = NoMessage => progressMessage' = MsgGuidance
                   /\ jobs'[j].err \in Errors
                   /\ ~isJoining'
                   /\ joinCalls' = joinCalls
                   /\ \A k \in JobIds : ~Running(k)'
            /\ jobs[j].pc = "failed" => jobs'[j] = jobs[j] ]_vars

C18_Witness ==
    /\ jobs[1].pc = "failed"
    /\ jobs[1].err = NoMessage
    /\ progressMessage = MsgGuidance
    /\ DOMAIN fs = { <<"clip-", 0, ".", <<"b">> >>, <<"clip-", 1, ".", <<"m">> >>, FileList }

\* ---- C12 (SpecAnyTime)
\* C12: a handleJoin invocation works on the clip sequence of the moment it
\* was called, whatever handleFileSelection, removeClip and moveClip do to the
\* list while it runs: the names it has pushed, the entries it has staged and
\* the playlist it has written are those of that sequence, in its order.
C12_JobUnaffectedByListChanges ==
    /\ [][ \A j \in JobIds :
             /\ (jobs[j].pc = "new" /\ Running(j)') => jobs'[j].snap = clips
             /\ (Running(j) /\ Running(j)') => jobs'[j].snap = jobs[j].snap ]_vars
    /\ [](\A j \in JobIds :
            jobs[j].pc \in { "write", "writeList", "exec", "read" } =>
                LET names == jobs[j].inputNames
                    snap == jobs[j].snap
                    staged == IF jobs[j].pc = "write" THEN Len(names) - 1 ELSE Len(names)
                IN  /\ Len(names) <= Len(snap)
                    /\ jobs[j].pc # "write" => Len(names) = Len(snap)
                    /\ \A i \in 1..Len(names) : names[i] = InputName(i - 1, snap[i])
                    /\ \A i \in 1..staged :
                         names[i] \in DOMAIN fs /\ fs[names[i]] = ClipBytes(snap[i])
                    /\ jobs[j].pc \in { "exec", "read" } =>
                         (FileList \in DOMAIN fs /\ fs[FileList] = ConcatList(names)))

C12_Witness ==
    \E j \in JobIds :
        /\ jobs[j].pc = "exec"
        /\ Len(jobs[j].snap) = 2
        /\ Len(clips) = 2
        /\ clips[2] = jobs[j].snap[2]
        /\ clips[1].id = 3

\* ---- C20 (Spec)
\* The extension of a file name as the claim has it: the part after the last
\* ".", and "mp4" for a name without ".".
LastDot(name) == CHOOSE i \in 1..Len(name) :
                     name[i] = "." /\ \A k \in (i + 1)..Len(name) : name[k] # "."
ExtensionOrMp4(name) ==
    IF \E i \in 1..Len(name) : name[i] = "."
    THEN SubSeq(name, LastDot(name) + 1, Len(name))
    ELSE MP4

\* C20: the name an invocation pushes for the clip at position index of its
\* sequence is clip-<index>.<ext>, <ext> being the part of the file's name
\* after its last "." and "mp4" when the name has no ".".
C20_StagedNameHasExtension ==
    \A j \in JobIds :
        jobs[j].pc \in { "write", "writeList", "exec", "read" } =>
            \A i \in 1..Len(jobs[j].inputNames) :
                jobs[j].inputNames[i] =
                    << "clip-", i - 1, ".", ExtensionOrMp4(jobs[j].snap[i].name) >>

\* ---- C15 (Spec)
\* The invocations that have passed ensureFFmpeg and issue engine calls on
\* the working storage.
Staging == { j \in JobIds : jobs[j].pc \in InFlight \ { "fetch", "load", "await" } }

\* C15 as claimed: isJoining is true only while the engine is ready.
C15_JoiningOnlyWhileReady == isJoining => isFFmpegReady

\* C15 as amended: isJoining is true only while a handleJoin invocation is in
\* flight, and an invocation issues its staging, concat and readback calls
\* only while the engine is ready; until then it waits in ensureFFmpeg.
C15_JoiningStagesOnlyWhileReady ==
    /\ isJoining => \E j \in JobIds : Running(j)
    /\ Staging # {} => (isFFmpegReady /\ ffmpegRef)
    /\ (isJoining /\ ~isFFmpegReady) =>
           \A j \in JobIds : Running(j) => jobs[j].pc \in { "fetch", "load", "await" }

C15_Witness ==
    /\ isJoining
    /\ ~isFFmpegReady
    /\ isLoadingFFmpeg
    /\ jobs[2].pc = "load"
    /\ jobs[1].pc = "failed"

\* ---- C17 (Spec)
\* C17 as claimed: from its call to its readback a handleJoin invocation shows
\* "Preparing files..." until it calls exec, "Joining videos..." until the
\* output is read, and "Combined video ready!" from then on.
C17_StatusSequence ==
    \A j \in JobIds :
        /\ jobs[j].pc \in { "fetch", "load", "await", "del1", "del2", "write",
                            "writeList" } => status = StatusPreparing
        /\ jobs[j].pc \in { "exec", "read" } => status = StatusJoining
        /\ jobs[j].pc = "cleanup" => status = StatusCombined

\* C17 as amended: the invocation's own status values come in the order
\* "Preparing files...", "Joining videos...", "Combined video ready!"; before
\* "Joining videos..." the status can also be what the engine load shows
\* ("Downloading FFmpeg core...", then "FFmpeg ready."), and at any point it
\* can be "Ready to join. ..." when files were selected during the job.
C17_StatusSequenceWithLoadAndSelection ==
    \A j \in JobIds :
        /\ jobs[j].pc \in { "fetch", "load" } =>
               status \in { StatusDownloading, StatusReadyToJoin }
        /\ jobs[j].pc = "await" => status \in { StatusPreparing, StatusReadyToJoin }
        /\ jobs[j].pc \in { "del1", "del2", "write", "writeList" } =>
               status \in { StatusPreparing, StatusFFmpegReady, StatusReadyToJoin }
        /\ jobs[j].pc \in { "exec", "read" } =>
               status \in { StatusJoining, StatusReadyToJoin }
        /\ jobs[j].pc = "cleanup" => status \in { StatusCombined, StatusReadyToJoin }
        /\ (status = StatusFFmpegReady /\ Running(j)) =>
               (variant = "lazy" /\ loadCalls >= 1)

C17_Witness ==
    /\ jobs[1].pc = "failed"
    /\ jobs[2].pc = "cleanup"
    /\ status = StatusCombined
    /\ loadCalls = 2

\* ---- C13 (Spec)
\* An engine load has been attempted, none is in flight and the engine is not
\* ready: the last attempt failed.
EngineLoadFailed == ffmpegRef /\ ~isFFmpegReady /\ LoadsInFlight = 0

\* C13: a handleJoin call (and with it ensureFFmpeg) made after an engine load
\* has failed starts a new load, and a load that succeeds makes the engine
\* ready.
C13_FailedLoadIsRetried ==
    [][ /\ (EngineLoadFailed /\ joinCalls' # joinCalls /\ ~TooFewClips(Len(clips))) =>
               LoadsInFlight' = 1
        /\ (LoadsInFlight = 1 /\ LoadsInFlight' = 0 /\ ~isLoadingFFmpeg'
               /\ status' \notin { StatusJoinFailed, StatusLoadFailed }) =>
               isFFmpegReady' ]_vars

\* ---- C11 (SpecSession)
\* C11: the object URLs created and not revoked are at most the one outputUrl
\* holds, and once the component has unmounted none is left, also when a
\* handleJoin invocation was running at the unmount and succeeds afterwards.
C11_NoArtifactLeaks ==
    /\ liveUrls \subseteq { outputUrl }
    /\ ~mounted => liveUrls = {}

\* ---- C21 (Spec)
\* C21: when the latest handleJoin invocation has succeeded, the engine's
\* working storage holds no entry at all: no clip-<index> input, no
\* filelist.txt and no output.mp4, whatever invocations ran before it.
C21_StorageEmptyAfterSuccess ==
    (joinCalls >= 1 /\ jobs[joinCalls].pc = "done") => DOMAIN fs = {}

\* ---- C22 (SpecList)
\* The indexes moveClip is called with: those of the list and up to MaxStale
\* positions before and behind it.
MoveIndexes == (0 - MaxStale)..(Len(clips) - 1 + MaxStale)

\* C22: for every list the handlers can produce, every index (stale or out of
\* range included) and both directions, what moveClip returns has the length
\* of the list, holds exactly its clips, each once, and nothing else, and is
\* the list itself or the list with two neighbours exchanged.
C22_MoveYieldsPermutation ==
    \A index \in MoveIndexes, delta \in { -1, 1 } :
        LET next == MoveClips(clips, index, delta)
        IN  /\ Len(next) = Len(clips)
            /\ \A i \in 1..Len(next) : \E k \in 1..Len(clips) : next[i] = clips[k]
            /\ \A k \in 1..Len(clips) : \E i \in 1..Len(next) : next[i] = clips[k]
            /\ \/ next = clips
               \/ \E i \in 1..(Len(clips) - 1) : next = SwapAdjacent(clips, i)

====
